---------------------------- MODULE Spec2Model ----------------------------
(***************************************************************************)
(* Model of bids.py: the DICOM tag resolver get_dicomfield (with its one   *)
(* entry memo and the Siemens protocol fallback parse_from_x_protocol) and *)
(* the series matcher exist_series.                                        *)
(*                                                                         *)
(* Python values are tagged records, text and bytes are sequences of       *)
(* tokens (a token stands for a run of characters; each character of the   *)
(* separator of the protocol dump is a token of its own), a dict is a      *)
(* function on its keys.                                                   *)
(***************************************************************************)
EXTENDS Integers, Sequences, FiniteSets, TLC

VARIABLES
    _DICOMDICT_MEMO,   \* module global: the Dataset parsed last (or None)
    _DICOMFILE_MEMO,   \* module global: the file it was parsed from (or None)
    call,              \* the last get_dicomfield call and what it did
    lastparsed,        \* the file of the most recent successful dcmread
    series,            \* exist_series: the candidate
    serieslist,        \* exist_series: the previous records
    matchbidslabels,   \* exist_series: the flag
    result             \* exist_series: what the call gave

vars == << _DICOMDICT_MEMO, _DICOMFILE_MEMO, call, lastparsed,
           series, serieslist, matchbidslabels, result >>

resolvervars == << _DICOMDICT_MEMO, _DICOMFILE_MEMO, call, lastparsed >>
matchervars  == << series, serieslist, matchbidslabels, result >>

-----------------------------------------------------------------------------
(* Python values *)

None        == [kind |-> "None",       int |-> 0, text |-> << >>, items |-> << >>]
IntV(n)     == [kind |-> "int",        int |-> n, text |-> << >>, items |-> << >>]
StrV(t)     == [kind |-> "str",        int |-> 0, text |-> t,     items |-> << >>]
DSfloatV(t) == [kind |-> "DSfloat",    int |-> 0, text |-> t,     items |-> << >>]
MultiV(s)   == [kind |-> "MultiValue", int |-> 0, text |-> << >>, items |-> s]
\* an exception that leaves the function, named by its type
Raised(e)   == [kind |-> "raise",      int |-> 0, text |-> <<e>>, items |-> << >>]
\* a local name that was never bound
Unbound     == [kind |-> "unbound",    int |-> 0, text |-> << >>, items |-> << >>]

Digit(n) ==
    CASE n = 0 -> "0" [] n = 1 -> "1" [] n = 2 -> "2" [] n = 3 -> "3" [] n = 4 -> "4"
      [] n = 5 -> "5" [] n = 6 -> "6" [] n = 7 -> "7" [] n = 8 -> "8" [] n = 9 -> "9"

RECURSIVE IntText(_)
IntText(n) ==
    IF n < 0 THEN <<"-">> \o IntText(0 - n)
    ELSE IF n < 10 THEN <<Digit(n)>>
    ELSE IntText(n \div 10) \o <<Digit(n % 10)>>

RECURSIVE ItemsText(_)
ItemsText(s) ==
    IF s = << >> THEN << >>
    ELSE IF Len(s) = 1 THEN IntText(s[1])
    ELSE IntText(s[1]) \o <<", ">> \o ItemsText(Tail(s))

\* MultiValue.__str__: '' for an empty one, else the items in brackets
MultiValueText(s) ==
    IF s = << >> THEN << >> ELSE <<"[">> \o ItemsText(s) \o <<"]">>

\* str(value)
str(value) ==
    CASE value.kind = "str"        -> value
      [] value.kind = "None"       -> StrV(<<"None">>)
      [] value.kind = "int"        -> StrV(IntText(value.int))
      [] value.kind = "DSfloat"    -> StrV(value.text)
      [] value.kind = "MultiValue" -> StrV(MultiValueText(value.items))


\* the cast at the end of get_dicomfield (lines 268-275): an int stays an int,
\* the rest goes through str()
CastAllStr(value) == str(value)

Cast(value) ==
    IF value.kind = "int" THEN IntV(value.int) ELSE str(value)

-----------------------------------------------------------------------------
(* The files the resolver is called on.  A file is what open() and          *)
(* pydicom.dcmread() make of it: whether it can be opened, whether it        *)
(* parses as DICOM, the Dataset it parses to, and its bytes line by line.    *)

\* the separator of the regexp of line 217, '\t = \t': TAB SPACE '=' SPACE TAB
Sep == <<"\t", " ", "=", " ", "\t">>

SiemensLines ==
    << <<"DICM", "\n">>,
       <<"### ASCCONV BEGIN ###", "\n">>,
       <<"x", "lRepetitions">> \o Sep \o <<"3", "\n">>,
       <<"lRepetitions", "\t", "=", "\t", "4", "\n">>,
       <<"lRepetitions", "\t", " ", "=", "\t", "6", "\n">>,
       <<"lRepetitions">> \o Sep \o <<"5", "\n">>,
       <<"lRepetitions">> \o Sep \o <<"9", "\n">>,
       <<"sProtocolName">> \o Sep \o <<"\"", "t1", " ", "mprage", "\"", "\n">>,
       <<"lContrasts">> \o Sep \o <<"0xFF", "\n">>,
       <<"SliceThickness">> \o Sep \o <<"2", ".", "5", "\n">>,
       <<"lAverages">> \o Sep \o <<"1">> >>

SiemensDataset ==
    [t \in {"PatientName", "SeriesNumber", "AcquisitionMatrix", "EchoTime", "StudyID"} |->
        CASE t = "PatientName"       -> StrV(<<"Doe">>)
          [] t = "SeriesNumber"      -> IntV(12)
          [] t = "AcquisitionMatrix" -> MultiV(<<0, 64, 64, 0>>)
          [] t = "EchoTime"          -> DSfloatV(<<"2", ".", "5">>)
          [] t = "StudyID"           -> None]

OtherLines ==
    << <<"DICM", "\n">>,
       <<"PatientName">> \o Sep \o <<"Smith", "\n">> >>

OtherDataset ==
    [t \in {"PatientName", "SeriesNumber", "SliceThickness", "ImageType"} |->
        CASE t = "PatientName"    -> StrV(<<"Roe">>)
          [] t = "ImageType"      -> MultiV(<< >>)
          [] t = "SeriesNumber"   -> IntV(-3)
          [] t = "SliceThickness" -> DSfloatV(<<"3">>)]

NotesLines ==
    << <<"### ASCCONV BEGIN ###", "\n">>,
       <<"lRepetitions">> \o Sep \o <<"7", "\n">> >>

Path(p) == StrV(<<p>>)

\* every file handle a caller passes: four paths and the None that
\* get_dicom_file returns for a folder without DICOM files
Handles ==
    {Path("siemens.dcm"), Path("other.dcm"), Path("missing.dcm"), Path("notes.txt"), None}

Tags ==
    {"PatientName", "SeriesNumber", "AcquisitionMatrix", "EchoTime", "StudyID",
     "SliceThickness", "ImageType", "lRepetitions", "sProtocolName", "lContrasts", "lAverages",
     "Nowhere"}

NoFile == [exists |-> FALSE, dicom |-> FALSE, dataset |-> None, lines |-> << >>]

File(dicomfile) ==
    CASE dicomfile = Path("siemens.dcm") ->
            [exists |-> TRUE, dicom |-> TRUE, dataset |-> SiemensDataset, lines |-> SiemensLines]
      [] dicomfile = Path("other.dcm") ->
            [exists |-> TRUE, dicom |-> TRUE, dataset |-> OtherDataset, lines |-> OtherLines]
      [] dicomfile = Path("notes.txt") ->
            [exists |-> TRUE, dicom |-> FALSE, dataset |-> None, lines |-> NotesLines]
      [] OTHER -> NoFile

\* pydicom.dcmread(dicomfile): the Dataset, or the exception it raises.  A
\* path that cannot be opened raises an IOError, a file that is no DICOM an
\* InvalidDicomError, and None (no path, no file object) a TypeError.
dcmread(dicomfile) ==
    IF dicomfile = None THEN [exc |-> "TypeError", dataset |-> None]
    ELSE IF ~File(dicomfile).exists THEN [exc |-> "IOError", dataset |-> None]
    ELSE IF ~File(dicomfile).dicom THEN [exc |-> "InvalidDicomError", dataset |-> None]
    ELSE [exc |-> "", dataset |-> File(dicomfile).dataset]

\* dicomdict.get(tagname): Dataset.get gives the element's value, or its
\* default None when the Dataset has no such element; None has no get.
DictGet(dicomdict, tagname) ==
    IF dicomdict = None THEN [exc |-> "AttributeError", value |-> Unbound]
    ELSE IF tagname \in DOMAIN dicomdict THEN [exc |-> "", value |-> dicomdict[tagname]]
    ELSE [exc |-> "", value |-> None]

-----------------------------------------------------------------------------
(* parse_from_x_protocol *)

\* is_dicomfile_siemens(file): the bytes hold the ASCCONV BEGIN marker
is_dicomfile_siemens(file) ==
    \E i \in 1..Len(File(file).lines) :
        \E j \in 1..Len(File(file).lines[i]) :
            File(file).lines[i][j] = "### ASCCONV BEGIN ###"

\* regex.match(line) for '^' + pattern + '\t = \t(.*)\n': the line starts with
\* the pattern and the separator, the group runs up to the first newline
\* after them ('.' matches no newline), and the newline has to be there
RegexMatch(pattern, line) ==
    LET head == <<pattern>> \o Sep
        nl   == {k \in (Len(head) + 1)..Len(line) : line[k] = "\n"}
    IN  IF Len(line) > Len(head) /\ SubSeq(line, 1, Len(head)) = head /\ nl # {}
        THEN [matched |-> TRUE,
              group   |-> SubSeq(line, Len(head) + 1,
                                 (CHOOSE k \in nl : \A m \in nl : k <= m) - 1)]
        ELSE [matched |-> FALSE, group |-> << >>]

\* bytes.decode('utf-8'): a byte that is no UTF-8 raises UnicodeDecodeError
Decode(bytes) ==
    IF \E i \in 1..Len(bytes) : bytes[i] = "0xFF"
    THEN [exc |-> "UnicodeDecodeError", value |-> Unbound]
    ELSE [exc |-> "", value |-> StrV(bytes)]

\* for line in openfile: the first line that matches is returned, decoded
RECURSIVE ScanLines(_, _, _)
ScanLines(pattern, lines, i) ==
    IF i > Len(lines) THEN [exc |-> "", found |-> FALSE, value |-> None]
    ELSE IF RegexMatch(pattern, lines[i]).matched
         THEN [exc   |-> Decode(RegexMatch(pattern, lines[i]).group).exc,
               found |-> TRUE,
               value |-> Decode(RegexMatch(pattern, lines[i]).group).value]
         ELSE ScanLines(pattern, lines, i + 1)

\* parse_from_x_protocol(pattern, dicomfile): the value (a str or None), the
\* warnings it gave, or the exception that leaves it
parse_from_x_protocol(pattern, dicomfile) ==
    IF dicomfile = None
    THEN [exc |-> "TypeError", value |-> Unbound, warnings |-> << >>]
    ELSE IF ~File(dicomfile).exists
    THEN [exc |-> "IOError", value |-> Unbound, warnings |-> << >>]
    ELSE LET w    == IF is_dicomfile_siemens(dicomfile) THEN << >> ELSE <<"not a Siemens DICOM">>
             scan == ScanLines(pattern, File(dicomfile).lines, 1)
         IN  IF scan.exc # "" THEN [exc |-> scan.exc, value |-> Unbound, warnings |-> w]
             ELSE IF scan.found THEN [exc |-> "", value |-> scan.value, warnings |-> w]
             ELSE [exc |-> "", value |-> None, warnings |-> w \o <<"Pattern not found">>]

-----------------------------------------------------------------------------
(* get_dicomfield *)

\* the test of line 246: the file is not the memoized one
MemoDiffersAlways(dicomfile, filememo) == TRUE

MemoDiffers(dicomfile, filememo) == dicomfile # filememo

\* lines 247-249: dcmread, then the two assignments to the memo.  When dcmread
\* raises, neither assignment is reached
MemoizeEarly(rd, dicomfile, dictmemo, filememo) ==
    [dictmemo |-> IF rd.exc = "" THEN rd.dataset ELSE dictmemo,
     filememo |-> dicomfile]

Memoize(rd, dicomfile, dictmemo, filememo) ==
    IF rd.exc = "" THEN [dictmemo |-> rd.dataset, filememo |-> dicomfile]
    ELSE [dictmemo |-> dictmemo, filememo |-> filememo]

\* get_dicomfield(tagname, dicomfile) run on the memo (dictmemo, filememo):
\* the memo it leaves, what it returns (or the exception that leaves it), the
\* warnings it gives, what became of dcmread ("skipped" when the memo is used,
\* "ok", or the exception), what the lookup was made on, and whether
\* parse_from_x_protocol was called
get_dicomfield(tagname, dicomfile, dictmemo, filememo) ==
    LET differs   == MemoDiffers(dicomfile, filememo)
        rd        == dcmread(dicomfile)
        memo      == IF differs THEN Memoize(rd, dicomfile, dictmemo, filememo)
                     ELSE [dictmemo |-> dictmemo, filememo |-> filememo]
        dicomdict == IF differs THEN rd.dataset ELSE dictmemo
        looked    == ~differs \/ rd.exc = ""
        got       == DictGet(dicomdict, tagname)
        \* the exception the try block ends with, "" when it ends normally
        exc       == IF differs /\ rd.exc # "" THEN rd.exc ELSE got.exc
        px        == parse_from_x_protocol(tagname, dicomfile)
        \* value after the try statement: bound by the try block, left unbound
        \* by the IOError clause, bound by the Exception clause
        value     == IF exc = "" THEN got.value
                     ELSE IF exc = "IOError" THEN Unbound
                     ELSE IF px.exc = "" THEN px.value
                     ELSE None
        warned    == IF exc = "" THEN << >>
                     ELSE IF exc = "IOError" THEN <<"Cannot read">>
                     ELSE IF px.exc = "" THEN px.warnings
                     ELSE px.warnings \o <<"Could not extract">>
    IN  [dictmemo  |-> memo.dictmemo,
         filememo  |-> memo.filememo,
         \* isinstance(value, int) on an unbound name raises UnboundLocalError
         ret       |-> IF value = Unbound THEN Raised("UnboundLocalError") ELSE Cast(value),
         warnings  |-> warned,
         dcmread   |-> IF ~differs THEN "skipped" ELSE IF rd.exc = "" THEN "ok" ELSE rd.exc,
         lookup    |-> IF ~looked THEN "not made"
                       ELSE IF dicomdict = None THEN "None" ELSE "Dataset",
         xprotocol |-> exc # "" /\ exc # "IOError"]

NoCall ==
    [tagname |-> "", dicomfile |-> None, ret |-> None, warnings |-> << >>,
     dcmread |-> "no call", lookup |-> "not made", xprotocol |-> FALSE]

InitResolver ==
    /\ _DICOMDICT_MEMO = None
    /\ _DICOMFILE_MEMO = None
    /\ call = NoCall
    /\ lastparsed = None

\* one call of get_dicomfield by a caller
GetDicomField(tagname, dicomfile) ==
    LET out == get_dicomfield(tagname, dicomfile, _DICOMDICT_MEMO, _DICOMFILE_MEMO)
    IN  /\ _DICOMDICT_MEMO' = out.dictmemo
        /\ _DICOMFILE_MEMO' = out.filememo
        /\ call' = [tagname |-> tagname, dicomfile |-> dicomfile, ret |-> out.ret,
                    warnings |-> out.warnings, dcmread |-> out.dcmread,
                    lookup |-> out.lookup, xprotocol |-> out.xprotocol]
        /\ lastparsed' = IF out.dcmread = "ok" THEN dicomfile ELSE lastparsed
        /\ UNCHANGED matchervars

NextResolver ==
    \E tagname \in Tags, dicomfile \in Handles : GetDicomField(tagname, dicomfile)

-----------------------------------------------------------------------------
(* exist_series *)

\* A series is a dict: a function on its keys.  'attributes' maps to a dict
\* of attribute values, every other key is a BIDS label.  The order a dict is
\* iterated in is the order its keys were inserted in: for the candidate it
\* is given beside the dict; attribute dicts are iterated in AttrOrder.

MaxPrev == 2

AttrOrder == <<"EchoTime", "ProtocolName">>

AttrValues(attrkey) ==
    IF attrkey = "EchoTime" THEN {None, IntV(1), IntV(2)} ELSE {None}

AttrDicts ==
    UNION {{d \in [S -> {None, IntV(1), IntV(2)}] : \A k \in S : d[k] \in AttrValues(k)} :
            S \in SUBSET {"EchoTime", "ProtocolName"}}

Labels == {"func", "anat"}

\* the records: with or without 'attributes', with or without 'modality'
SeriesDicts ==
    LET withattr == {[k \in {"attributes"} |-> a] : a \in AttrDicts}
        nokeys   == {[k \in {} |-> None]}
        withmod  == {[k \in {"modality"} |-> m] : m \in Labels}
    IN  {a @@ m : a \in withattr \cup nokeys, m \in withmod \cup nokeys}

\* the orders the keys of a dict can have been inserted in
KeyOrders(d) ==
    {o \in UNION {[1..n -> DOMAIN d] : n \in {Cardinality(DOMAIN d)}} :
        \A i, j \in DOMAIN o : i # j => o[i] # o[j]}

SeqsUpTo(S, n) == UNION {[1..m -> S] : m \in 0..n}

\* for attrkey in series['attributes']: the comparisons from attribute j on.
\* item['attributes'][attrkey] raises KeyError when the item has no
\* 'attributes' or no such attribute; the except clause makes match False
RECURSIVE AttrLoop(_, _, _, _)
AttrLoop(s, item, match, j) ==
    IF j > Len(AttrOrder) THEN match
    ELSE IF AttrOrder[j] \notin DOMAIN s["attributes"] THEN AttrLoop(s, item, match, j + 1)
    ELSE IF "attributes" \notin DOMAIN item THEN FALSE
    ELSE IF AttrOrder[j] \notin DOMAIN item["attributes"] THEN FALSE
    ELSE AttrLoop(s, item,
                  match /\ (s["attributes"][AttrOrder[j]] = item["attributes"][AttrOrder[j]]),
                  j + 1)

\* line 316: match starts True when some attribute of the series is not None
InitialMatchAlways(s) == TRUE

InitialMatch(s) ==
    \E key \in DOMAIN s["attributes"] : s["attributes"][key] # None

\* lines 329-333: a key other than 'attributes' is compared only under
\* matchbidslabels; item[key] raises KeyError when the item has no such key
LabelMatchAlways(s, item, key, matchlabels, match) ==
    IF key \notin DOMAIN item THEN FALSE
    ELSE match /\ (s[key] = item[key])

LabelMatch(s, item, key, matchlabels, match) ==
    IF matchlabels
    THEN IF key \notin DOMAIN item THEN FALSE
         ELSE match /\ (s[key] = item[key])
    ELSE match

\* for key in series: the keys from position k on, with the break on a
\* mismatch
RECURSIVE KeyLoop(_, _, _, _, _, _)
KeyLoop(s, keys, item, matchlabels, match, k) ==
    IF k > Len(keys) THEN match
    ELSE LET m == IF keys[k] = "attributes" THEN AttrLoop(s, item, match, 1)
                  ELSE LabelMatch(s, item, keys[k], matchlabels, match)
         IN  IF ~m THEN FALSE
             ELSE KeyLoop(s, keys, item, matchlabels, m, k + 1)

\* for item in serieslist: the items from position i on.  The first line of
\* the loop body reads series['attributes'] outside the try: a candidate
\* without 'attributes' raises KeyError to the caller
RECURSIVE ItemLoop(_, _, _, _, _)
ItemLoop(s, keys, list, matchlabels, i) ==
    IF i > Len(list) THEN "False"
    ELSE IF "attributes" \notin DOMAIN s THEN "KeyError"
    ELSE IF KeyLoop(s, keys, list[i], matchlabels, InitialMatch(s), 1) THEN "True"
    ELSE ItemLoop(s, keys, list, matchlabels, i + 1)

\* exist_series(series, serieslist, matchbidslabels): "True", "False", or the
\* exception that leaves it
exist_series(s, keys, list, matchlabels) ==
    ItemLoop(s, keys, list, matchlabels, 1)

InitMatcher ==
    /\ series \in UNION {{[dict |-> d, keys |-> o] : o \in KeyOrders(d)} : d \in SeriesDicts}
    /\ serieslist \in SeqsUpTo(SeriesDicts, MaxPrev)
    /\ matchbidslabels \in BOOLEAN
    /\ result = "not called"

ExistSeries ==
    /\ result = "not called"
    /\ result' = exist_series(series.dict, series.keys, serieslist, matchbidslabels)
    /\ UNCHANGED << series, serieslist, matchbidslabels >>
    /\ UNCHANGED resolvervars

-----------------------------------------------------------------------------
(* The two specifications *)

MatcherIdle ==
    /\ series = [dict |-> [k \in {} |-> None], keys |-> << >>]
    /\ serieslist = << >>
    /\ matchbidslabels = TRUE
    /\ result = "not called"

Init == InitResolver /\ MatcherIdle

Next == NextResolver

Spec == Init /\ [][Next]_vars

InitMatch == InitResolver /\ InitMatcher

NextMatch == ExistSeries

SpecMatch == InitMatch /\ [][NextMatch]_vars

-----------------------------------------------------------------------------
(* What the claims speak of, stated without the code's loops *)

Called == call.dcmread # "no call"

\* the file of the last call parses as DICOM: it has a structured dictionary
Readable(c) == c.dicomfile # None /\ File(c.dicomfile).dicom

InDictionary(c) == Readable(c) /\ c.tagname \in DOMAIN File(c.dicomfile).dataset

\* line i of the file has the exact form name<TAB> = <TAB>value<NEWLINE>
ExactForm(tagname, dicomfile, i) ==
    LET line == File(dicomfile).lines[i]
    IN  /\ Len(line) >= 7
        /\ SubSeq(line, 1, 6) = <<tagname, "\t", " ", "=", " ", "\t">>
        /\ line[Len(line)] = "\n"
        /\ \A k \in 7..(Len(line) - 1) : line[k] # "\n"

InDump(c) ==
    \E i \in 1..Len(File(c.dicomfile).lines) : ExactForm(c.tagname, c.dicomfile, i)

\* the value of the first line of the dump that has the exact form
FirstInDump(c) ==
    LET i == CHOOSE i \in 1..Len(File(c.dicomfile).lines) :
                /\ ExactForm(c.tagname, c.dicomfile, i)
                /\ \A j \in 1..(i - 1) : ~ExactForm(c.tagname, c.dicomfile, j)
        line == File(c.dicomfile).lines[i]
    IN  SubSeq(line, 7, Len(line) - 1)

IsAbsent(v) == v = None

\* the memo is empty, or the pair of the file parsed last and its dictionary
MemoIsLastParsed ==
    /\ _DICOMFILE_MEMO = lastparsed
    /\ _DICOMDICT_MEMO = (IF lastparsed = None THEN None ELSE File(lastparsed).dataset)

MatcherCalled == result # "not called"

AllAttributesAbsent(s) ==
    /\ "attributes" \in DOMAIN s
    /\ \A k \in DOMAIN s["attributes"] : s["attributes"][k] = None

\* conditions (i), (ii), (iii) of the equivalence of candidate s and record r
Equivalent(s, r, matchlabels) ==
    /\ "attributes" \in DOMAIN s
    /\ \E k \in DOMAIN s["attributes"] : s["attributes"][k] # None
    /\ "attributes" \in DOMAIN r
    /\ \A k \in DOMAIN s["attributes"] :
          k \in DOMAIN r["attributes"] /\ r["attributes"][k] = s["attributes"][k]
    /\ matchlabels =>
          \A key \in DOMAIN s \ {"attributes"} : key \in DOMAIN r /\ r[key] = s[key]

-----------------------------------------------------------------------------
(* The claims *)

\* C1: a candidate whose attributes are all None, or that has no attributes
\* in its attribute set, is never reported as existing, whatever the previous
\* list and the flag are.
C1_AllAbsentNeverExists ==
    (MatcherCalled /\ AllAttributesAbsent(series.dict)) => result = "False"

\* C1 witness: an all-None candidate was looked up in a list that holds the
\* identical record, and was not found.
C1_Witness ==
    /\ result = "False"
    /\ AllAttributesAbsent(series.dict)
    /\ DOMAIN series.dict["attributes"] = {"EchoTime", "ProtocolName"}
    /\ \E i \in DOMAIN serieslist : serieslist[i] = series.dict

\* C2: exist_series returns True exactly when some record of the previous
\* list is equivalent to the candidate: the candidate has a non-None
\* attribute, the record has every attribute of the candidate with an equal
\* value, and under matchbidslabels every label of the candidate too.
C2_ExistsIffEquivalent ==
    MatcherCalled =>
        ((result = "True") <=>
            \E i \in DOMAIN serieslist :
                Equivalent(series.dict, serieslist[i], matchbidslabels))

\* C2 witness: the second record matched after the first one did not, the
\* labels differ and were not compared, and the record has an attribute the
\* candidate lacks.
C2_Witness ==
    /\ result = "True"
    /\ ~matchbidslabels
    /\ Len(serieslist) = 2
    /\ ~Equivalent(series.dict, serieslist[1], matchbidslabels)
    /\ "modality" \in DOMAIN series.dict
    /\ "modality" \in DOMAIN serieslist[2]
    /\ series.dict["modality"] # serieslist[2]["modality"]
    /\ DOMAIN serieslist[2]["attributes"] # DOMAIN series.dict["attributes"]

\* C3: when the candidate and a record of the previous list do not have the
\* same fields, exist_series raises nothing and returns a boolean, and a
\* record that lacks a field or attribute the comparison looks up is a
\* mismatch.
C3_MissingFieldIsMismatch ==
    (MatcherCalled /\ \E i \in DOMAIN serieslist : DOMAIN serieslist[i] # DOMAIN series.dict)
    =>  /\ result \in {"True", "False"}
        /\ (\A i \in DOMAIN serieslist :
               \/ \E key \in DOMAIN series.dict \ {"attributes"} :
                     matchbidslabels /\ key \notin DOMAIN serieslist[i]
               \/ "attributes" \notin DOMAIN serieslist[i])
            => result = "False"

\* C4: the memo is the (file, dictionary) pair of the most recent successful
\* parse; two consecutive calls on one file parse it at most once; a call on
\* a file other than the memoized one parses again and, when the parse
\* succeeds, replaces the pair.
C4_CacheCorrect ==
    /\ []MemoIsLastParsed
    /\ [][(Called /\ call'.dicomfile = call.dicomfile)
             => ~(call.dcmread = "ok" /\ call'.dcmread = "ok")]_vars
    /\ [][(call'.dicomfile # _DICOMFILE_MEMO)
             => /\ call'.dcmread # "skipped"
                /\ call'.dcmread = "ok"
                     => /\ _DICOMFILE_MEMO' = call'.dicomfile
                        /\ _DICOMDICT_MEMO' = File(call'.dicomfile).dataset]_vars

\* C4 witness: a call was served from the memo of the file parsed last.
C4_Witness ==
    /\ call.dcmread = "skipped"
    /\ call.lookup = "Dataset"
    /\ _DICOMFILE_MEMO = call.dicomfile
    /\ _DICOMFILE_MEMO = Path("other.dcm")

\* C5: a call whose dcmread fails with an IOError raises nothing: it gives
\* one diagnostic and returns absent.
C5_IOErrorIsNonFatal ==
    (Called /\ call.dcmread = "IOError")
    =>  /\ call.ret.kind # "raise"
        /\ IsAbsent(call.ret)
        /\ Len(call.warnings) = 1

\* C6: a call whose dcmread fails with an IOError leaves both memo variables
\* as they were and never records the failed file, and the next call for the
\* memoized file is served without parsing.
C6_IOErrorKeepsMemo ==
    /\ [][call'.dcmread = "IOError"
             => /\ UNCHANGED << _DICOMDICT_MEMO, _DICOMFILE_MEMO >>
                /\ _DICOMFILE_MEMO' # call'.dicomfile]_vars
    /\ [][(call.dcmread = "IOError" /\ _DICOMFILE_MEMO # None
              /\ call'.dicomfile = _DICOMFILE_MEMO)
             => (call'.dcmread = "skipped" /\ call'.lookup = "Dataset")]_vars

\* C6 witness: after an IOError on another file the memo still holds the
\* file parsed before.
C6_Witness ==
    /\ call.dcmread = "IOError"
    /\ call.dicomfile = Path("missing.dcm")
    /\ _DICOMFILE_MEMO = Path("siemens.dcm")
    /\ _DICOMDICT_MEMO = SiemensDataset

\* C7: a field that the structured dictionary of a readable file lacks and
\* that the vendor dump holds in the exact form is resolved by pattern
\* extraction to the value of the first such line, as text.
C7_FallbackToDump ==
    (Called /\ Readable(call) /\ ~InDictionary(call) /\ InDump(call))
    =>  /\ call.xprotocol
        /\ call.ret = StrV(FirstInDump(call))

\* C8: a field that neither the structured dictionary nor the vendor dump of
\* a readable file holds resolves to absent, with exactly one diagnostic.
C8_NotFoundIsAbsent ==
    (Called /\ Readable(call) /\ ~InDictionary(call) /\ ~InDump(call))
    =>  /\ IsAbsent(call.ret)
        /\ Len(call.warnings) = 1

\* C9: a field of the structured dictionary resolves to the structured
\* value, an int as that int and anything else as its text, and pattern
\* extraction is not called.
C9_StructuredValue ==
    (Called /\ InDictionary(call))
    =>  LET v == File(call.dicomfile).dataset[call.tagname]
        IN  /\ call.ret.kind \in {"int", "str"}
            /\ v.kind = "int" => call.ret = v
            /\ v.kind = "str" => call.ret = v
            /\ v.kind \notin {"int", "str"} => call.ret = str(v)
            /\ ~call.xprotocol

\* C9 witness: a multi-valued element was returned from the memo as text.
C9_Witness ==
    /\ call.dcmread = "skipped"
    /\ call.tagname = "AcquisitionMatrix"
    /\ call.ret = StrV(<<"[", "0", ", ", "6", "4", ", ", "6", "4", ", ", "0", "]">>)
    /\ ~call.xprotocol

\* C10: parsing is skipped only for the file whose parsed dictionary the memo
\* holds, and the lookup is never made on None.
C10_SkipOnlyOnParsedFile ==
    Called =>
        /\ call.dcmread = "skipped"
              => (_DICOMDICT_MEMO # None /\ lastparsed = call.dicomfile)
        /\ call.lookup # "None"

=============================================================================
